---- MODULE Spec2Model ----
(***************************************************************************)
(* A model of the note store of src/venv/Scripts/store.py: the Note        *)
(* record, the JSON backing file and its temporary file on a POSIX file    *)
(* system (directory entries, inodes, open descriptors), and the six       *)
(* operations of NoteStore, both as whole calls (Spec) and step by step    *)
(* (the specifications with failures and with two processes).              *)
(***************************************************************************)
EXTENDS Integers, Sequences, FiniteSets, TLC

\* ------------------------------------------------------------------ bounds

\* add is not called once the next id would exceed MaxId
MaxId == 2
\* the clock (seconds) stops advancing at MaxClock
MaxClock == 1
\* no call starts after MaxCalls calls
MaxCalls == 4
\* the same, for the calls taken step by step
MaxStepCalls == 2
\* I/O failures and crashes in one behaviour
MaxFaults == 1

\* ------------------------------------------------------------------ values

Procs == {1, 2}

\* A text is a sequence of characters.
Texts == {<<"a">>, <<"A", "b">>}
Queries == {<<"b">>, <<"A">>}

\* The optional tags argument of add: omitted (None), or a list.
NoTags == [some |-> FALSE, val |-> <<>>]
TagArgs == {NoTags, [some |-> TRUE, val |-> << <<"B">> >>]}

NilNote ==
  [id |-> 0, text |-> <<>>, done |-> FALSE, tags |-> <<>>, created_at |-> 0, updated_at |-> 0]

NoArg == [id |-> 0, text |-> <<>>, flag |-> FALSE, tags |-> NoTags, query |-> <<>>]

\* What a call gave its caller: kind is "note", "list", "ok" (remove) or the
\* exception raised.
NoRet == [op |-> "none", arg |-> NoArg, kind |-> "none", note |-> NilNote, notes |-> <<>>]

Ret(o, a, k, n, ns) == [op |-> o, arg |-> a, kind |-> k, note |-> n, notes |-> ns]

\* ------------------------------------------------------------- the file

\* A file's content is a sequence of tokens: the brackets of the JSON array, one
\* token per serialized note, text that is no JSON ("text"), a NUL-filled hole
\* ("nul") and bytes that are no UTF-8 ("bad").
Tok(k) == [k |-> k, n |-> NilNote]
NoteTok(n) == [k |-> "note", n |-> n]

\* json.dump(notes, f, indent=2, ensure_ascii=False)
Dump(notes) ==
  <<Tok("[")>> \o [i \in 1..Len(notes) |-> NoteTok(notes[i])] \o <<Tok("]")>>

\* read_text(encoding="utf-8") raises UnicodeDecodeError on bytes that are no UTF-8
Decodable(c) == \A i \in 1..Len(c) : c[i].k # "bad"

\* json.loads raises JSONDecodeError unless the text is one complete array
WellFormed(c) ==
  /\ Len(c) >= 2
  /\ c[1].k = "["
  /\ c[Len(c)].k = "]"
  /\ \A i \in 2..(Len(c) - 1) : c[i].k = "note"

Loads(c) == [i \in 1..(Len(c) - 2) |-> c[i + 1].n]

\* NoteStore._read on the bytes of the file (the except clause catches
\* json.JSONDecodeError only)
ParseContent(c) ==
  IF ~Decodable(c) THEN [err |-> "UnicodeDecodeError", notes |-> <<>>]
  ELSE IF WellFormed(c) THEN [err |-> "none", notes |-> Loads(c)]
  ELSE [err |-> "none", notes |-> <<>>]

\* --------------------------------------------------------- the file system

\* The directory holds two names: the store's path ("canon") and the path with
\* ".tmp" appended ("tmp"). A name maps to an inode (0: no such file); an open
\* descriptor keeps its inode alive after the name is gone (POSIX).
Names == {"canon", "tmp"}
Inodes == 1..4

VARIABLES
  dir,      \* [Names -> Inodes \cup {0}]
  inodes,   \* [Inodes -> content]
  fd,       \* [Procs -> Inodes \cup {0}]: the file each process holds open
  clock,    \* the wall clock, in seconds
  pc,       \* [Procs -> where the process is in its call]
  op,       \* [Procs -> the operation in progress]
  arg,      \* [Procs -> its arguments]
  mem,      \* [Procs -> the notes list in memory]
  rbuf,     \* [Procs -> what read_text has read so far]
  wpos,     \* [Procs -> tokens written to the temporary file so far]
  ret,      \* [Procs -> what the last call gave its caller]
  pre,      \* [Procs -> the canonical file (name and content) when the call started]
  seen,     \* [Procs -> whether the call has opened the file, and the content then]
  stale,    \* [Procs -> the temporary file (name and content) that failed or
            \* crashed calls had left behind when the call started]
  issued,   \* the ids add has returned so far
  ref,      \* the reference collection: a set of notes
  lastRep,  \* the last os.replace that succeeded: its process (0: none yet) and
            \* the content it put under the path
  calls,    \* calls started so far
  faults    \* I/O failures and crashes so far

vars ==
  <<dir, inodes, fd, clock, pc, op, arg, mem, rbuf, wpos, ret, pre, seen, stale,
    issued, ref, lastRep, calls, faults>>

World == [dir |-> dir, inodes |-> inodes, fd |-> fd]

SetWorld(w) ==
  /\ dir' = w.dir
  /\ inodes' = w.inodes
  /\ fd' = w.fd

Referenced(w) ==
  ({w.dir[n] : n \in Names} \cup {w.fd[p] : p \in Procs}) \ {0}

FreeInode(w) ==
  CHOOSE i \in Inodes :
    /\ i \notin Referenced(w)
    /\ \A j \in Inodes : j \notin Referenced(w) => i <= j

\* an inode nothing refers to is gone
Gc(w) ==
  [w EXCEPT !.inodes = [i \in Inodes |-> IF i \in Referenced(w) THEN w.inodes[i] ELSE <<>>]]

\* open(name, "w"): O_CREAT | O_TRUNC
FsOpenW(w, p, name) ==
  LET i == IF w.dir[name] # 0 THEN w.dir[name] ELSE FreeInode(w) IN
  [dir |-> [w.dir EXCEPT ![name] = i],
   inodes |-> [w.inodes EXCEPT ![i] = <<>>],
   fd |-> [w.fd EXCEPT ![p] = i]]

\* write one token at offset pos of the open file; past the end, the gap is a hole
FsWriteAt(w, p, pos, tok) ==
  LET c == w.inodes[w.fd[p]]
      d == IF pos < Len(c)
             THEN [c EXCEPT ![pos + 1] = tok]
             ELSE c \o [i \in 1..(pos - Len(c)) |-> Tok("nul")] \o <<tok>>
  IN [w EXCEPT !.inodes[w.fd[p]] = d]

RECURSIVE FsWriteFrom(_, _, _, _)
FsWriteFrom(w, p, c, pos) ==
  IF pos >= Len(c) THEN w
  ELSE FsWriteFrom(FsWriteAt(w, p, pos, c[pos + 1]), p, c, pos + 1)

FsClose(w, p) == Gc([w EXCEPT !.fd[p] = 0])

\* a wrong replace: dst gets the file and src keeps its name (a link, not a
\* rename)
FsReplaceKeepsSrc(w, src, dst) ==
  Gc([w EXCEPT !.dir = [n \in Names |-> IF n = dst THEN w.dir[src] ELSE w.dir[n]]])

\* os.replace(src, dst), for an existing src
FsReplace(w, src, dst) ==
  IF src = dst THEN w
  ELSE Gc([w EXCEPT !.dir = [n \in Names |->
             IF n = dst THEN w.dir[src] ELSE IF n = src THEN 0 ELSE w.dir[n]]])

CanonContent(w) == w.inodes[w.dir["canon"]]

\* ------------------------------------------------------------ NoteStore

\* a wrong temp_path: the path itself, so that the file is rewritten in place
TempPathIsPath == "canon"

\* temp_path = self.path.with_suffix(self.path.suffix + ".tmp")
TempPath == "tmp"

\* NoteStore._read
ReadNotes(w) ==
  IF w.dir["canon"] = 0 THEN [err |-> "none", notes |-> <<>>]
  ELSE ParseContent(CanonContent(w))

\* a wrong _write_atomic: the temporary file is written and never replaced over
\* the path
WriteAtomicNoReplace(w, p, notes) ==
  FsClose(FsWriteFrom(FsOpenW(w, p, TempPath), p, Dump(notes), 0), p)

\* NoteStore._write_atomic, as one step
WriteAtomic(w, p, notes) ==
  LET w1 == FsOpenW(w, p, TempPath)
      w2 == FsWriteFrom(w1, p, Dump(notes), 0)
      w3 == FsClose(w2, p)
  IN FsReplace(w3, TempPath, "canon")

MaxOf(S) == CHOOSE m \in S : \A x \in S : x <= m

\* a wrong _next_id: len(notes) + 1
NextIdByCount(notes) == Len(notes) + 1

\* a wrong _next_id: the id of the first note, plus one
NextIdFromFirst(notes) == (IF Len(notes) = 0 THEN 0 ELSE notes[1].id) + 1

\* NoteStore._next_id
NextId(notes) == MaxOf({notes[i].id : i \in 1..Len(notes)} \cup {0}) + 1

\* tags or []
TagsOrEmpty(t) == IF t.some THEN t.val ELSE <<>>

\* Note(id=..., text=text, tags=tags or []).to_dict(), the clock reading now
ToDict(id, text, tags, now) ==
  [id |-> id, text |-> text, done |-> FALSE, tags |-> TagsOrEmpty(tags),
   created_at |-> now, updated_at |-> now]

\* a wrong append: notes.insert(0, note_dict)
InsertFirst(notes, note_dict) == <<note_dict>> \o notes

\* notes.append(note_dict)
AppendNote(notes, note_dict) == Append(notes, note_dict)

\* a wrong set_done: it stamps created_at as well
SetDoneAtStampsBoth(notes, idx, done, now) ==
  [notes EXCEPT ![idx].done = done, ![idx].updated_at = now, ![idx].created_at = now]

\* a wrong set_done: done is set and updated_at is left as it was
SetDoneAtNoRefresh(notes, idx, done, now) ==
  [notes EXCEPT ![idx].done = done]

\* notes[idx]["done"] = done; notes[idx]["updated_at"] = now
SetDoneAt(notes, idx, done, now) ==
  [notes EXCEPT ![idx].done = done, ![idx].updated_at = now]

\* a wrong edit: the text is replaced and updated_at is left as it was
EditAtStale(notes, idx, new_text, now) ==
  [notes EXCEPT ![idx].text = new_text]

\* a wrong edit: the note is marked not done again
EditAtResetsDone(notes, idx, new_text, now) ==
  [notes EXCEPT ![idx].text = new_text, ![idx].updated_at = now, ![idx].done = FALSE]

\* notes[idx]["text"] = new_text; notes[idx]["updated_at"] = now
EditAt(notes, idx, new_text, now) ==
  [notes EXCEPT ![idx].text = new_text, ![idx].updated_at = now]

\* NoteStore._find_idx: the first index with that id; 0 stands for KeyError
FindIdx(notes, id) ==
  LET hits == {i \in 1..Len(notes) : notes[i].id = id} IN
  IF hits = {} THEN 0 ELSE CHOOSE i \in hits : \A j \in hits : i <= j

\* a wrong pop: notes.pop(), the last note whatever idx is
RemoveLast(s, i) == SubSeq(s, 1, Len(s) - 1)

\* notes.pop(idx)
RemoveAt(s, i) == SubSeq(s, 1, i - 1) \o SubSeq(s, i + 1, Len(s))

\* [note for note in notes if not note.get("done")]
NotDoneOf(notes) ==
  LET F[i \in 0..Len(notes)] ==
        IF i = 0 THEN <<>>
        ELSE IF ~notes[i].done THEN Append(F[i - 1], notes[i]) ELSE F[i - 1]
  IN F[Len(notes)]

\* one step of a stable sort by id, descending: x goes after every element whose
\* id is at least its own
InsertDesc(sorted, x) ==
  LET k == Cardinality({i \in 1..Len(sorted) : sorted[i].id >= x.id}) IN
  SubSeq(sorted, 1, k) \o <<x>> \o SubSeq(sorted, k + 1, Len(sorted))

\* a wrong sort: the notes as they are in the file
Unsorted(notes) == notes

\* sorted(notes, key=lambda n: n.get("id", 0), reverse=True)
SortDesc(notes) ==
  LET F[i \in 0..Len(notes)] ==
        IF i = 0 THEN <<>> ELSE InsertDesc(F[i - 1], notes[i])
  IN F[Len(notes)]

\* NoteStore.list, on the notes read
ListOf(notes, include_done) ==
  SortDesc(IF include_done THEN notes ELSE NotDoneOf(notes))

\* str.lower()
LowerChar(c) == IF c = "A" THEN "a" ELSE IF c = "B" THEN "b" ELSE c
Lower(t) == [i \in 1..Len(t) |-> LowerChar(t[i])]

\* q in t, for strings
Contains(q, t) ==
  \E i \in 0..(Len(t) - Len(q)) : SubSeq(t, i + 1, i + Len(q)) = q

\* a wrong matches_query: the tags are not looked at
MatchesTextOnly(n, query_lower) == Contains(query_lower, Lower(n.text))

\* matches_query
MatchesQuery(n, query_lower) ==
  \/ Contains(query_lower, Lower(n.text))
  \/ \E i \in 1..Len(n.tags) : Contains(query_lower, Lower(n.tags[i]))

\* NoteStore.search, on the notes read
SearchOf(notes, query) ==
  LET F[i \in 0..Len(notes)] ==
        IF i = 0 THEN <<>>
        ELSE IF MatchesQuery(notes[i], Lower(query)) THEN Append(F[i - 1], notes[i])
        ELSE F[i - 1]
  IN F[Len(notes)]

\* datetime.now(): the clock does not go back, and advances between calls
Now == {t \in {clock, clock + 1} : t <= MaxClock}

\* -------------------------------------------------------- initial states

\* The backing file before the first call: missing, an empty collection, text
\* that is no JSON, or bytes that are no UTF-8.
InitContents == {Dump(<<>>), <<Tok("text")>>, <<Tok("bad")>>}

Init ==
  /\ \/ /\ dir = [n \in Names |-> 0]
        /\ inodes = [i \in Inodes |-> <<>>]
     \/ \E c \in InitContents :
          /\ dir = [n \in Names |-> IF n = "canon" THEN 1 ELSE 0]
          /\ inodes = [i \in Inodes |-> IF i = 1 THEN c ELSE <<>>]
  /\ fd = [p \in Procs |-> 0]
  /\ clock = 0
  /\ pc = [p \in Procs |-> "idle"]
  /\ op = [p \in Procs |-> "none"]
  /\ arg = [p \in Procs |-> NoArg]
  /\ mem = [p \in Procs |-> <<>>]
  /\ rbuf = [p \in Procs |-> <<>>]
  /\ wpos = [p \in Procs |-> 0]
  /\ ret = [p \in Procs |-> NoRet]
  /\ pre = [p \in Procs |-> [exists |-> FALSE, content |-> <<>>]]
  /\ seen = [p \in Procs |-> [opened |-> FALSE, content |-> <<>>]]
  /\ stale = [p \in Procs |-> [exists |-> FALSE, content |-> <<>>]]
  /\ issued = {}
  /\ ref = {}
  /\ lastRep = [proc |-> 0, content |-> <<>>]
  /\ calls = 0
  /\ faults = 0

\* ---------------------------------------------------- whole calls (Spec)

StepVars == <<pc, op, arg, mem, rbuf, wpos, pre, seen, stale, lastRep, faults>>

\* the call raises e: nothing is written
Raises(p, o, a, e) ==
  /\ ret' = [ret EXCEPT ![p] = Ret(o, a, e, NilNote, <<>>)]
  /\ UNCHANGED <<dir, inodes, fd, clock, issued, ref>>

\* the reference collection's add: a note with the next id after the greatest
RefAdd(r, text, tags, now) ==
  LET m == IF r = {} THEN 0 ELSE CHOOSE x \in {n.id : n \in r} : \A n \in r : n.id <= x IN
  r \cup {[id |-> m + 1, text |-> text, done |-> FALSE,
           tags |-> IF tags.some THEN tags.val ELSE <<>>,
           created_at |-> now, updated_at |-> now]}

\* NoteStore.add
Add(p, text, tags) ==
  /\ pc[p] = "idle"
  /\ calls < MaxCalls
  /\ calls' = calls + 1
  /\ \E r \in {ReadNotes(World)}, a \in {[NoArg EXCEPT !.text = text, !.tags = tags]} :
       /\ NextId(r.notes) <= MaxId
       /\ IF r.err # "none" THEN Raises(p, "add", a, r.err)
          ELSE \E now \in Now :
            \E note_dict \in {ToDict(NextId(r.notes), text, tags, now)} :
              /\ SetWorld(WriteAtomic(World, p, AppendNote(r.notes, note_dict)))
              /\ clock' = now
              /\ ret' = [ret EXCEPT ![p] = Ret("add", a, "note", note_dict, <<>>)]
              /\ issued' = issued \cup {note_dict.id}
              /\ ref' = RefAdd(ref, text, tags, now)
  /\ UNCHANGED StepVars

\* NoteStore.set_done
SetDone(p, note_id, done) ==
  /\ pc[p] = "idle"
  /\ calls < MaxCalls
  /\ calls' = calls + 1
  /\ \E r \in {ReadNotes(World)}, a \in {[NoArg EXCEPT !.id = note_id, !.flag = done]} :
       IF r.err # "none" THEN Raises(p, "set_done", a, r.err)
       ELSE \E idx \in {FindIdx(r.notes, note_id)} :
         IF idx = 0 THEN Raises(p, "set_done", a, "KeyError")
         ELSE \E now \in Now :
           \E notes \in {SetDoneAt(r.notes, idx, done, now)} :
             /\ SetWorld(WriteAtomic(World, p, notes))
             /\ clock' = now
             /\ ret' = [ret EXCEPT ![p] = Ret("set_done", a, "note", notes[idx], <<>>)]
             /\ ref' = {IF n.id = note_id THEN [n EXCEPT !.done = done, !.updated_at = now]
                        ELSE n : n \in ref}
             /\ UNCHANGED issued
  /\ UNCHANGED StepVars

\* NoteStore.edit
Edit(p, note_id, new_text) ==
  /\ pc[p] = "idle"
  /\ calls < MaxCalls
  /\ calls' = calls + 1
  /\ \E r \in {ReadNotes(World)}, a \in {[NoArg EXCEPT !.id = note_id, !.text = new_text]} :
       IF r.err # "none" THEN Raises(p, "edit", a, r.err)
       ELSE \E idx \in {FindIdx(r.notes, note_id)} :
         IF idx = 0 THEN Raises(p, "edit", a, "KeyError")
         ELSE \E now \in Now :
           \E notes \in {EditAt(r.notes, idx, new_text, now)} :
             /\ SetWorld(WriteAtomic(World, p, notes))
             /\ clock' = now
             /\ ret' = [ret EXCEPT ![p] = Ret("edit", a, "note", notes[idx], <<>>)]
             /\ ref' = {IF n.id = note_id THEN [n EXCEPT !.text = new_text, !.updated_at = now]
                        ELSE n : n \in ref}
             /\ UNCHANGED issued
  /\ UNCHANGED StepVars

\* NoteStore.remove
Remove(p, note_id) ==
  /\ pc[p] = "idle"
  /\ calls < MaxCalls
  /\ calls' = calls + 1
  /\ \E r \in {ReadNotes(World)}, a \in {[NoArg EXCEPT !.id = note_id]} :
       IF r.err # "none" THEN Raises(p, "remove", a, r.err)
       ELSE \E idx \in {FindIdx(r.notes, note_id)} :
         IF idx = 0 THEN Raises(p, "remove", a, "KeyError")
         ELSE /\ SetWorld(WriteAtomic(World, p, RemoveAt(r.notes, idx)))
              /\ ret' = [ret EXCEPT ![p] = Ret("remove", a, "ok", NilNote, <<>>)]
              /\ ref' = {n \in ref : n.id # note_id}
              /\ UNCHANGED <<clock, issued>>
  /\ UNCHANGED StepVars

\* NoteStore.list
List(p, include_done) ==
  /\ pc[p] = "idle"
  /\ calls < MaxCalls
  /\ calls' = calls + 1
  /\ \E r \in {ReadNotes(World)}, a \in {[NoArg EXCEPT !.flag = include_done]} :
       IF r.err # "none" THEN Raises(p, "list", a, r.err)
       ELSE /\ ret' = [ret EXCEPT ![p] =
                         Ret("list", a, "list", NilNote, ListOf(r.notes, include_done))]
            /\ UNCHANGED <<dir, inodes, fd, clock, issued, ref>>
  /\ UNCHANGED StepVars

\* NoteStore.search
Search(p, query) ==
  /\ pc[p] = "idle"
  /\ calls < MaxCalls
  /\ calls' = calls + 1
  /\ \E r \in {ReadNotes(World)}, a \in {[NoArg EXCEPT !.query = query]} :
       IF r.err # "none" THEN Raises(p, "search", a, r.err)
       ELSE /\ ret' = [ret EXCEPT ![p] =
                         Ret("search", a, "list", NilNote, SearchOf(r.notes, query))]
            /\ UNCHANGED <<dir, inodes, fd, clock, issued, ref>>
  /\ UNCHANGED StepVars

Ids == 1..MaxId

\* one process calling the store, one call at a time
Next ==
  \/ \E text \in Texts, tags \in TagArgs : Add(1, text, tags)
  \/ \E note_id \in Ids, done \in BOOLEAN : SetDone(1, note_id, done)
  \/ \E note_id \in Ids, new_text \in Texts : Edit(1, note_id, new_text)
  \/ \E note_id \in Ids : Remove(1, note_id)
  \/ \E include_done \in BOOLEAN : List(1, include_done)
  \/ \E query \in Queries : Search(1, query)

Spec == Init /\ [][Next]_vars

\* ------------------------------------------------- calls, step by step

AddCalls ==
  {[op |-> "add", arg |-> [NoArg EXCEPT !.text = text, !.tags = tags]]
     : text \in Texts, tags \in TagArgs}
SetDoneCalls ==
  {[op |-> "set_done", arg |-> [NoArg EXCEPT !.id = note_id, !.flag = done]]
     : note_id \in Ids, done \in BOOLEAN}
EditCalls ==
  {[op |-> "edit", arg |-> [NoArg EXCEPT !.id = note_id, !.text = new_text]]
     : note_id \in Ids, new_text \in Texts}
RemoveCalls == {[op |-> "remove", arg |-> [NoArg EXCEPT !.id = note_id]] : note_id \in Ids}
ListCalls == {[op |-> "list", arg |-> [NoArg EXCEPT !.flag = include_done]] : include_done \in BOOLEAN}
SearchCalls == {[op |-> "search", arg |-> [NoArg EXCEPT !.query = query]] : query \in Queries}

MutatingCalls == AddCalls \cup SetDoneCalls \cup EditCalls \cup RemoveCalls
ReadingCalls == ListCalls \cup SearchCalls

CanonNow ==
  [exists |-> dir["canon"] # 0,
   content |-> IF dir["canon"] # 0 THEN inodes[dir["canon"]] ELSE <<>>]

\* the temporary file as it is now
TempNow ==
  [exists |-> dir[TempPath] # 0,
   content |-> IF dir[TempPath] # 0 THEN inodes[dir[TempPath]] ELSE <<>>]

\* the caller calls c.op(c.arg)
Call(p, c) ==
  /\ pc[p] = "idle"
  /\ calls < MaxStepCalls
  /\ calls' = calls + 1
  /\ pc' = [pc EXCEPT ![p] = "exists"]
  /\ op' = [op EXCEPT ![p] = c.op]
  /\ arg' = [arg EXCEPT ![p] = c.arg]
  /\ ret' = [ret EXCEPT ![p] = NoRet]
  /\ pre' = [pre EXCEPT ![p] = CanonNow]
  /\ stale' = [stale EXCEPT ![p] = IF faults > 0 THEN TempNow
                                    ELSE [exists |-> FALSE, content |-> <<>>]]
  /\ seen' = [seen EXCEPT ![p] = [opened |-> FALSE, content |-> <<>>]]
  /\ mem' = [mem EXCEPT ![p] = <<>>]
  /\ rbuf' = [rbuf EXCEPT ![p] = <<>>]
  /\ wpos' = [wpos EXCEPT ![p] = 0]
  /\ UNCHANGED <<dir, inodes, fd, clock, issued, ref, lastRep, faults>>

\* the call ends: it returns, or raises k
Returns(p, k, n, ns) ==
  /\ pc' = [pc EXCEPT ![p] = "idle"]
  /\ ret' = [ret EXCEPT ![p] = Ret(op[p], arg[p], k, n, ns)]

\* _read: if not self.path.exists(): return []
Exists(p) ==
  /\ pc[p] = "exists"
  /\ pc' = [pc EXCEPT ![p] = IF dir["canon"] = 0 THEN "loaded" ELSE "open_r"]
  /\ UNCHANGED <<dir, inodes, fd, clock, op, arg, mem, rbuf, wpos, ret, pre, seen, stale,
                 issued, ref, lastRep, calls, faults>>

\* _read: read_text opens the path (os.replace never leaves the path without a file)
OpenRead(p) ==
  /\ pc[p] = "open_r"
  /\ dir["canon"] # 0
  /\ fd' = [fd EXCEPT ![p] = dir["canon"]]
  /\ seen' = [seen EXCEPT ![p] = [opened |-> TRUE, content |-> inodes[dir["canon"]]]]
  /\ pc' = [pc EXCEPT ![p] = "reading"]
  /\ UNCHANGED <<dir, inodes, clock, op, arg, mem, rbuf, wpos, ret, pre, stale,
                 issued, ref, lastRep, calls, faults>>

\* _read: read_text reads on from its offset
ReadToken(p) ==
  /\ pc[p] = "reading"
  /\ Len(rbuf[p]) < Len(inodes[fd[p]])
  /\ rbuf' = [rbuf EXCEPT ![p] = Append(@, inodes[fd[p]][Len(@) + 1])]
  /\ UNCHANGED <<dir, inodes, fd, clock, pc, op, arg, mem, wpos, ret, pre, seen, stale,
                 issued, ref, lastRep, calls, faults>>

\* _read: at the end of the file read_text closes it and decodes, and json.loads
\* parses what was read
ReadEnd(p) ==
  /\ pc[p] = "reading"
  /\ Len(rbuf[p]) >= Len(inodes[fd[p]])
  /\ SetWorld(FsClose(World, p))
  /\ \E r \in {ParseContent(rbuf[p])} :
       IF r.err # "none"
         THEN Returns(p, r.err, NilNote, <<>>) /\ UNCHANGED mem
         ELSE /\ mem' = [mem EXCEPT ![p] = r.notes]
              /\ pc' = [pc EXCEPT ![p] = "loaded"]
              /\ UNCHANGED ret
  /\ UNCHANGED <<clock, op, arg, rbuf, wpos, pre, seen, stale, issued, ref, lastRep, calls, faults>>

StepFrame == <<dir, inodes, fd, op, arg, rbuf, wpos, pre, seen, stale, issued, ref, lastRep, calls, faults>>

\* add, from the notes read to the call of _write_atomic
AddStep(p) ==
  /\ pc[p] = "loaded"
  /\ op[p] = "add"
  /\ NextId(mem[p]) <= MaxId
  /\ \E now \in Now :
       \E note_dict \in {ToDict(NextId(mem[p]), arg[p].text, arg[p].tags, now)} :
         /\ mem' = [mem EXCEPT ![p] = AppendNote(@, note_dict)]
         /\ ret' = [ret EXCEPT ![p] = Ret("add", arg[p], "pending", note_dict, <<>>)]
         /\ clock' = now
  /\ pc' = [pc EXCEPT ![p] = "open_w"]
  /\ UNCHANGED StepFrame

\* set_done, from the notes read to the call of _write_atomic
SetDoneStep(p) ==
  /\ pc[p] = "loaded"
  /\ op[p] = "set_done"
  /\ \E idx \in {FindIdx(mem[p], arg[p].id)} :
       IF idx = 0
         THEN Returns(p, "KeyError", NilNote, <<>>) /\ UNCHANGED <<mem, clock>>
         ELSE \E now \in Now :
           \E notes \in {SetDoneAt(mem[p], idx, arg[p].flag, now)} :
             /\ mem' = [mem EXCEPT ![p] = notes]
             /\ ret' = [ret EXCEPT ![p] = Ret("set_done", arg[p], "pending", notes[idx], <<>>)]
             /\ clock' = now
             /\ pc' = [pc EXCEPT ![p] = "open_w"]
  /\ UNCHANGED StepFrame

\* edit, from the notes read to the call of _write_atomic
EditStep(p) ==
  /\ pc[p] = "loaded"
  /\ op[p] = "edit"
  /\ \E idx \in {FindIdx(mem[p], arg[p].id)} :
       IF idx = 0
         THEN Returns(p, "KeyError", NilNote, <<>>) /\ UNCHANGED <<mem, clock>>
         ELSE \E now \in Now :
           \E notes \in {EditAt(mem[p], idx, arg[p].text, now)} :
             /\ mem' = [mem EXCEPT ![p] = notes]
             /\ ret' = [ret EXCEPT ![p] = Ret("edit", arg[p], "pending", notes[idx], <<>>)]
             /\ clock' = now
             /\ pc' = [pc EXCEPT ![p] = "open_w"]
  /\ UNCHANGED StepFrame

\* remove, from the notes read to the call of _write_atomic
RemoveStep(p) ==
  /\ pc[p] = "loaded"
  /\ op[p] = "remove"
  /\ \E idx \in {FindIdx(mem[p], arg[p].id)} :
       IF idx = 0
         THEN Returns(p, "KeyError", NilNote, <<>>) /\ UNCHANGED mem
         ELSE /\ mem' = [mem EXCEPT ![p] = RemoveAt(@, idx)]
              /\ ret' = [ret EXCEPT ![p] = Ret("remove", arg[p], "pending", NilNote, <<>>)]
              /\ pc' = [pc EXCEPT ![p] = "open_w"]
  /\ UNCHANGED clock
  /\ UNCHANGED StepFrame

\* list, on the notes read
ListStep(p) ==
  /\ pc[p] = "loaded"
  /\ op[p] = "list"
  /\ Returns(p, "list", NilNote, ListOf(mem[p], arg[p].flag))
  /\ UNCHANGED <<mem, clock>>
  /\ UNCHANGED StepFrame

\* search, on the notes read
SearchStep(p) ==
  /\ pc[p] = "loaded"
  /\ op[p] = "search"
  /\ Returns(p, "list", NilNote, SearchOf(mem[p], arg[p].query))
  /\ UNCHANGED <<mem, clock>>
  /\ UNCHANGED StepFrame

\* _write_atomic: temp_path.open("w", encoding="utf-8")
OpenTemp(p) ==
  /\ pc[p] = "open_w"
  /\ SetWorld(FsOpenW(World, p, TempPath))
  /\ wpos' = [wpos EXCEPT ![p] = 0]
  /\ pc' = [pc EXCEPT ![p] = "writing"]
  /\ UNCHANGED <<clock, op, arg, mem, rbuf, ret, pre, seen, stale, issued, ref, lastRep, calls, faults>>

\* _write_atomic: json.dump writes on, one buffer after the other
WriteToken(p) ==
  /\ pc[p] = "writing"
  /\ wpos[p] < Len(Dump(mem[p]))
  /\ SetWorld(FsWriteAt(World, p, wpos[p], Dump(mem[p])[wpos[p] + 1]))
  /\ wpos' = [wpos EXCEPT ![p] = @ + 1]
  /\ UNCHANGED <<clock, pc, op, arg, mem, rbuf, ret, pre, seen, stale, issued, ref, lastRep, calls, faults>>

\* _write_atomic: the with statement closes the file
CloseTemp(p) ==
  /\ pc[p] = "writing"
  /\ wpos[p] = Len(Dump(mem[p]))
  /\ SetWorld(FsClose(World, p))
  /\ pc' = [pc EXCEPT ![p] = "replace"]
  /\ UNCHANGED <<clock, op, arg, mem, rbuf, wpos, ret, pre, seen, stale, issued, ref, lastRep, calls, faults>>

\* _write_atomic: os.replace(temp_path, self.path), and the call returns; with no
\* file at temp_path it raises FileNotFoundError
ReplaceTemp(p) ==
  /\ pc[p] = "replace"
  /\ IF dir[TempPath] = 0
       THEN /\ Returns(p, "FileNotFoundError", NilNote, <<>>)
            /\ UNCHANGED <<dir, inodes, fd, issued, lastRep>>
       ELSE /\ SetWorld(FsReplace(World, TempPath, "canon"))
            /\ Returns(p, IF op[p] = "remove" THEN "ok" ELSE "note", ret[p].note, <<>>)
            /\ issued' = IF op[p] = "add" THEN issued \cup {ret[p].note.id} ELSE issued
            /\ lastRep' = [proc |-> p, content |-> Dump(mem[p])]
  /\ UNCHANGED <<clock, op, arg, mem, rbuf, wpos, pre, seen, stale, ref, calls, faults>>

\* an I/O failure (disk full, permission denied) in _write_atomic: open, a write,
\* the close or os.replace raises OSError; the with statement closes the file
FailIO(p) ==
  /\ pc[p] \in {"open_w", "writing", "replace"}
  /\ faults < MaxFaults
  /\ faults' = faults + 1
  /\ SetWorld(FsClose(World, p))
  /\ Returns(p, "OSError", NilNote, <<>>)
  /\ UNCHANGED <<clock, op, arg, mem, rbuf, wpos, pre, seen, stale, issued, ref, lastRep, calls>>

\* the process dies during a call (its descriptors are closed); a new process
\* takes its place
Crash(p) ==
  /\ pc[p] # "idle"
  /\ faults < MaxFaults
  /\ faults' = faults + 1
  /\ SetWorld(FsClose(World, p))
  /\ Returns(p, "crashed", NilNote, <<>>)
  /\ UNCHANGED <<clock, op, arg, mem, rbuf, wpos, pre, seen, stale, issued, ref, lastRep, calls>>

\* the steps of a call in progress
Step(p) ==
  \/ Exists(p)
  \/ OpenRead(p)
  \/ ReadToken(p)
  \/ ReadEnd(p)
  \/ AddStep(p)
  \/ SetDoneStep(p)
  \/ EditStep(p)
  \/ RemoveStep(p)
  \/ OpenTemp(p)
  \/ WriteToken(p)
  \/ CloseTemp(p)
  \/ ReplaceTemp(p)

\* one process, whose writes may fail and which may die
NextIO ==
  \/ \E c \in MutatingCalls \cup ReadingCalls : Call(1, c)
  \/ Step(1)
  \/ ListStep(1)
  \/ SearchStep(1)
  \/ FailIO(1)
  \/ Crash(1)

SpecIO == Init /\ [][NextIO]_vars

\* process 1 changes the collection while process 2 reads it
NextRW ==
  \/ \E c \in MutatingCalls : Call(1, c)
  \/ \E c \in ReadingCalls : Call(2, c)
  \/ \E p \in Procs : Step(p)
  \/ ListStep(2)
  \/ SearchStep(2)

SpecRW == Init /\ [][NextRW]_vars

\* the calls of two concurrent writers: one text, no tags
ConcurrentCalls ==
  {c \in MutatingCalls : c.arg.text \in {<<>>, <<"a">>} /\ ~c.arg.tags.some}

\* two processes change the collection
NextWW ==
  \/ \E p \in Procs : \E c \in ConcurrentCalls : Call(p, c)
  \/ \E p \in Procs : Step(p)

SpecWW == Init /\ [][NextWW]_vars

\* ------------------------------------------------------------------ claims

\* The persisted collection: the notes of the canonical file when it holds one
\* complete array, and no notes otherwise.
CollectionOf(d, ino) ==
  LET c == IF d["canon"] = 0 THEN <<>> ELSE ino[d["canon"]] IN
  IF /\ Len(c) >= 2
     /\ c[1] = Tok("[")
     /\ c[Len(c)] = Tok("]")
     /\ \A i \in 2..(Len(c) - 1) : c[i].k = "note"
  THEN [i \in 1..(Len(c) - 2) |-> c[i + 1].n]
  ELSE <<>>

Persisted == CollectionOf(dir, inodes)

IdsOf(notes) == {notes[i].id : i \in 1..Len(notes)}

\* C1: every id add returns is greater than every id an earlier add returned
\* (so the ids are pairwise distinct), removals in between included.
C1_AddIdsIncrease ==
  [][(ret'[1].op = "add" /\ ret'[1].kind = "note")
       => \A j \in issued : ret'[1].note.id > j]_vars

\* C2: no two notes of the persisted collection have the same id, and every
\* persisted id is a positive integer.
C2_PersistedIdsUnique ==
  /\ \A i \in 1..Len(Persisted) : Persisted[i].id > 0
  /\ \A i, j \in 1..Len(Persisted) : Persisted[i].id = Persisted[j].id => i = j

\* two notes persisted after four calls, the last of them an add
C2_Witness ==
  /\ Len(Persisted) = 2
  /\ calls = 4
  /\ ret[1].op = "add"
  /\ ret[1].kind = "note"

\* C3: when writing the temporary file or the replace fails, or the process dies
\* before the replace, the call ends with an I/O error (or not at all) and the
\* canonical file is what it was when the call started; until the replace the
\* call changes the temporary file only.
C3_FailureLeavesCanon ==
  /\ pc[1] \in {"exists", "open_r", "reading", "loaded", "open_w", "writing", "replace"}
       => CanonNow = pre[1]
  /\ ret[1].kind \in {"OSError", "crashed"} => (pc[1] = "idle" /\ CanonNow = pre[1])
  /\ faults > 0 /\ pc[1] = "idle" /\ calls = 1 => ret[1].kind \in {"OSError", "crashed"}

\* a write failed half way: the canonical file holds its one note, the temporary
\* file a part of the new content
C3_Witness ==
  /\ ret[1].kind = "OSError"
  /\ pre[1].exists
  /\ Len(pre[1].content) = 3
  /\ CanonNow = pre[1]
  /\ dir["tmp"] # 0
  /\ Len(inodes[dir["tmp"]]) \in 1..(Len(Dump(mem[1])) - 1)

\* C4: set_done, edit and remove with an id that no persisted note has raise
\* KeyError and leave the directory and every file as they were, also when the
\* file is missing or unparsable.
C4_AbsentIdKeyError ==
  [][(/\ ret'[1].op \in {"set_done", "edit", "remove"}
      /\ calls' # calls
      /\ ret'[1].arg.id \notin IdsOf(Persisted))
       => (ret'[1].kind = "KeyError" /\ dir' = dir /\ inodes' = inodes)]_vars

\* a file as the store writes it whole, or as it was before the first call
Complete(c) ==
  \/ c \in InitContents
  \/ /\ Len(c) >= 2
     /\ c[1] = Tok("[")
     /\ c[Len(c)] = Tok("]")
     /\ \A i \in 2..(Len(c) - 1) : c[i].k = "note"

\* C5: while process 1 changes the collection, every read of the canonical file
\* by process 2 gives a complete file: the content the path had when it was
\* opened, which is the content from before process 1's call until its replace,
\* and the content that call wrote from then on.
C5_ReaderSeesComplete ==
  /\ seen[2].opened => Complete(seen[2].content)
  /\ pc[2] = "reading" => rbuf[2] = SubSeq(seen[2].content, 1, Len(rbuf[2]))
  /\ seen[2].opened /\ pc[2] # "reading" /\ ret[2].kind # "crashed"
       => rbuf[2] = seen[2].content
  /\ pc[1] # "idle" => CanonNow = pre[1]
  /\ pc[1] = "idle" /\ ret[1].kind \in {"note", "ok"}
       => CanonNow = [exists |-> TRUE, content |-> Dump(mem[1])]

\* process 2 has read the whole file it opened, which process 1 replaced meanwhile
C5_Witness ==
  /\ ret[2].kind = "list"
  /\ seen[2].opened
  /\ rbuf[2] = seen[2].content
  /\ ret[1].kind = "note"
  /\ CanonNow.content # seen[2].content

\* C6: two concurrent calls that change the collection both end without an
\* error of the file system, and the canonical file is then the complete content
\* written by the call whose replace was the last.
C6_LastWriterWins ==
  /\ \A p \in Procs : ret[p].kind # "FileNotFoundError"
  /\ (\A p \in Procs : pc[p] = "idle") /\ lastRep.proc # 0
       => CanonNow = [exists |-> TRUE, content |-> lastRep.content]

\* C7: list(true) of a fresh store returns exactly the notes of the reference
\* collection, and the note add, set_done or edit returned is the note stored
\* under its id.
C7_RoundTrip ==
  ReadNotes(World).err = "none" =>
    LET listed == ListOf(ReadNotes(World).notes, TRUE) IN
    /\ {listed[i] : i \in 1..Len(listed)} = ref
    /\ Len(listed) = Cardinality(ref)
    /\ ret[1].kind = "note" =>
         \E i \in 1..Len(Persisted) :
           /\ Persisted[i] = ret[1].note
           /\ \A j \in 1..Len(Persisted) : Persisted[j].id = ret[1].note.id => j = i

\* an edit returned, with two notes in the file
C7_Witness ==
  /\ ret[1].op = "edit"
  /\ ret[1].kind = "note"
  /\ Cardinality(ref) = 2
  /\ ret[1].note.updated_at > ret[1].note.created_at

\* C8: add persists the collection with one note appended: id 1 + the greatest
\* id (1 for none), done false, the tags given or none, both timestamps the
\* current time; the other notes and their order are unchanged, and the appended
\* note is returned.
C8_AddAppends ==
  [][(ret'[1].op = "add" /\ ret'[1].kind = "note" /\ calls' # calls) =>
       LET C == Persisted
           n == ret'[1].note
           a == ret'[1].arg
       IN
       /\ CollectionOf(dir', inodes') = C \o <<n>>
       /\ \A i \in 1..Len(C) : n.id > C[i].id
       /\ IF C = <<>> THEN n.id = 1 ELSE \E i \in 1..Len(C) : n.id = C[i].id + 1
       /\ n.text = a.text
       /\ n.done = FALSE
       /\ n.tags = (IF a.tags.some THEN a.tags.val ELSE <<>>)
       /\ n.created_at = clock'
       /\ n.updated_at = clock']_vars

\* add returned the second note of the file, with tags
C8_Witness ==
  /\ ret[1].op = "add"
  /\ ret[1].kind = "note"
  /\ ret[1].note.tags # <<>>
  /\ Len(Persisted) = 2
  /\ Persisted[2] = ret[1].note

CanonUnparsable ==
  /\ dir["canon"] # 0
  /\ LET c == inodes[dir["canon"]] IN
       ~(/\ Len(c) >= 2
         /\ c[1] = Tok("[")
         /\ c[Len(c)] = Tok("]")
         /\ \A i \in 2..(Len(c) - 1) : c[i].k = "note")

\* C9: with the file missing or unparsable, list and search return the empty
\* sequence and add returns a note with id 1, the only note of the file after it.
C9_MissingOrUnparsable ==
  [][((dir["canon"] = 0 \/ CanonUnparsable) /\ calls' # calls) =>
       /\ ret'[1].op \in {"list", "search"} =>
            (ret'[1].kind = "list" /\ ret'[1].notes = <<>>)
       /\ ret'[1].op = "add" =>
            /\ ret'[1].kind = "note"
            /\ ret'[1].note.id = 1
            /\ CollectionOf(dir', inodes') = <<ret'[1].note>>]_vars

\* C10: list returns persisted notes by strictly descending id, all of them, or
\* with include_done false exactly those not done, and leaves every file as it
\* was.
C10_ListSortedFiltered ==
  [][(ret'[1].op = "list" /\ calls' # calls) =>
       /\ dir' = dir
       /\ inodes' = inodes
       /\ ret'[1].kind = "list" =>
            LET L == ret'[1].notes
                C == Persisted
            IN
            /\ \A i \in 1..(Len(L) - 1) : L[i].id > L[i + 1].id
            /\ {L[i] : i \in 1..Len(L)} =
                 {C[j] : j \in {k \in 1..Len(C) : ret'[1].arg.flag \/ ~C[k].done}}]_vars

\* list(false) returned one of two persisted notes
C10_Witness ==
  /\ ret[1].op = "list"
  /\ ret[1].kind = "list"
  /\ ~ret[1].arg.flag
  /\ Len(ret[1].notes) = 1
  /\ Len(Persisted) = 2

\* C11: a note keeps its created_at through every call, addressed to it or to
\* another note, from the add that created it to the remove that deletes it.
C11_CreatedAtKept ==
  [][\A C \in {Persisted}, D \in {CollectionOf(dir', inodes')} :
       \A i \in 1..Len(C), j \in 1..Len(D) :
         D[j].id = C[i].id => D[j].created_at = C[i].created_at]_vars

\* set_done returned a note created in an earlier second, with another note in
\* the file
C11_Witness ==
  /\ ret[1].op = "set_done"
  /\ ret[1].kind = "note"
  /\ ret[1].note.created_at < clock
  /\ Len(Persisted) = 2

\* C12: every persisted note has updated_at >= created_at; set_done and edit
\* set the addressed note's updated_at to the clock reading of the call, which
\* is not before the earlier readings; list and search change no updated_at.
C12_UpdatedAtRefreshed ==
  [][\A C \in {Persisted}, D \in {CollectionOf(dir', inodes')} :
     /\ clock' >= clock
     /\ \A i \in 1..Len(C) : C[i].updated_at >= C[i].created_at
     /\ \A j \in 1..Len(D) : D[j].updated_at >= D[j].created_at
     /\ (ret'[1].op \in {"set_done", "edit"} /\ ret'[1].kind = "note" /\ calls' # calls)
          => /\ ret'[1].note.updated_at = clock'
             /\ \E j \in 1..Len(D) :
                  D[j].id = ret'[1].arg.id /\ D[j].updated_at = clock'
     /\ (ret'[1].op \in {"list", "search"} /\ calls' # calls)
          => /\ Len(D) = Len(C)
             /\ \A j \in 1..Len(D) : D[j].updated_at = C[j].updated_at]_vars

\* edit returned a note in a later second than the one it was created in
C12_Witness ==
  /\ ret[1].op = "edit"
  /\ ret[1].kind = "note"
  /\ ret[1].note.created_at < ret[1].note.updated_at
  /\ \E i \in 1..Len(Persisted) : Persisted[i] = ret[1].note

\* the same letter, whatever the case
SameLetter(x, y) == \E cls \in {{"a", "A"}, {"b", "B"}} : x \in cls /\ y \in cls

\* q occurs in t, case ignored
OccursIn(q, t) ==
  \E off \in 0..(Len(t) - Len(q)) : \A k \in 1..Len(q) : SameLetter(q[k], t[off + k])

\* the note matches the query: by its text or by one of its tags
Hit(n, q) == OccursIn(q, n.text) \/ \E i \in 1..Len(n.tags) : OccursIn(q, n.tags[i])

\* C13: search returns exactly the notes whose text or one of whose tags holds
\* the query as a substring, case ignored, in the order of the persisted
\* collection, and leaves the canonical file as it is.
C13_SearchMatches ==
  [][(ret'[1].op = "search" /\ ret'[1].kind = "list" /\ calls' # calls) =>
       \A C \in {Persisted}, R \in {ret'[1].notes} :
       \A hits \in {{i \in 1..Len(C) : Hit(C[i], ret'[1].arg.query)}} :
       /\ Len(R) = Cardinality(hits)
       /\ \A k \in 1..Len(R) :
            R[k] = C[CHOOSE i \in hits : Cardinality({j \in hits : j <= i}) = k]
       /\ dir' = dir
       /\ inodes' = inodes]_vars

\* search found the second of two notes, by its tag only, and not the first
C13_Witness ==
  /\ ret[1].op = "search"
  /\ ret[1].kind = "list"
  /\ Len(Persisted) = 2
  /\ ret[1].notes = <<Persisted[2]>>
  /\ ~OccursIn(ret[1].arg.query, Persisted[2].text)

\* C14: a successful edit changes only the text and updated_at of the note with
\* that id, a successful set_done only its done and updated_at; its id, tags,
\* created_at and position, and every other note, stay as they were.
C14_EditSetDoneFrame ==
  [][(ret'[1].op \in {"edit", "set_done"} /\ ret'[1].kind = "note" /\ calls' # calls) =>
       \A C \in {Persisted}, D \in {CollectionOf(dir', inodes')} :
       /\ Len(D) = Len(C)
       /\ \A j \in 1..Len(C) :
            IF C[j].id # ret'[1].arg.id THEN D[j] = C[j]
            ELSE /\ D[j].id = C[j].id
                 /\ D[j].tags = C[j].tags
                 /\ D[j].created_at = C[j].created_at
                 /\ ret'[1].op = "edit" => D[j].done = C[j].done
                 /\ ret'[1].op = "set_done" => D[j].text = C[j].text]_vars

\* edit returned a done note, tagged, the first of two
C14_Witness ==
  /\ ret[1].op = "edit"
  /\ ret[1].kind = "note"
  /\ Len(Persisted) = 2
  /\ Persisted[1] = ret[1].note
  /\ ret[1].note.done
  /\ ret[1].note.tags # <<>>

\* C15: a successful remove persists the previous collection without the note
\* of that id: no note has the id, the others are there, as they were and in
\* the same order.
C15_RemoveFrame ==
  [][(ret'[1].op = "remove" /\ ret'[1].kind = "ok" /\ calls' # calls) =>
       \A C \in {Persisted}, D \in {CollectionOf(dir', inodes')} :
       /\ \A j \in 1..Len(D) : D[j].id # ret'[1].arg.id
       /\ \E i \in 1..Len(C) :
            /\ C[i].id = ret'[1].arg.id
            /\ Len(D) = Len(C) - 1
            /\ \A j \in 1..Len(D) : D[j] = C[IF j < i THEN j ELSE j + 1]]_vars

\* remove took the first of two notes: the second is the one left
C15_Witness ==
  /\ ret[1].op = "remove"
  /\ ret[1].kind = "ok"
  /\ ret[1].arg.id = 1
  /\ Len(Persisted) = 1
  /\ Persisted[1].id = 2

\* C16, as claimed: the note a successful set_done returns has updated_at
\* strictly greater than its created_at.
C16_SetDoneStrictlyLater ==
  (ret[1].op = "set_done" /\ ret[1].kind = "note")
    => ret[1].note.updated_at > ret[1].note.created_at

\* C16, amended: the note a successful set_done returns has the created_at add
\* gave it and the second set_done read as updated_at, which is not before
\* created_at and is after it exactly when set_done read a later second than
\* add did.
C16_SetDoneNotEarlier ==
  [][(ret'[1].op = "set_done" /\ ret'[1].kind = "note" /\ calls' # calls) =>
       \A n \in {ret'[1].note}, C \in {Persisted} :
       /\ n.done = ret'[1].arg.flag
       /\ n.updated_at = clock'
       /\ n.updated_at >= n.created_at
       /\ \E i \in 1..Len(C) :
            /\ C[i].id = n.id
            /\ C[i].created_at = n.created_at
            /\ (n.updated_at > n.created_at) <=> (clock' > C[i].created_at)]_vars

\* set_done returned a note in the second add created it in
C16_Witness ==
  /\ ret[1].op = "set_done"
  /\ ret[1].kind = "note"
  /\ ret[1].note.done
  /\ ret[1].note.updated_at = ret[1].note.created_at
  /\ clock = ret[1].note.created_at

\* C17: the ids of the persisted collection increase strictly with the position
\* in the file, so list(true) is the file's order reversed: and that is what a
\* list(true) call returned.
C17_IdsIncreaseOnDisk ==
  LET C == Persisted
      Rev == [i \in 1..Len(C) |-> C[Len(C) + 1 - i]]
  IN
  /\ \A i, j \in 1..Len(C) : i < j => C[i].id < C[j].id
  /\ ListOf(C, TRUE) = Rev
  /\ (ret[1].op = "list" /\ ret[1].kind = "list" /\ ret[1].arg.flag)
       => ret[1].notes = Rev

\* list(true) returned two notes, after one of them was set done or edited
C17_Witness ==
  /\ ret[1].op = "list"
  /\ ret[1].kind = "list"
  /\ ret[1].arg.flag
  /\ Len(ret[1].notes) = 2
  /\ ret[1].notes[1].id = 2
  /\ \E i \in 1..2 : Persisted[i].updated_at > Persisted[i].created_at

\* C18: with two processes changing the collection at the same time, both
\* through the same temporary path, the canonical file is at every instant
\* absent, as it was before the first call, or a complete serialized
\* collection that one of the processes computed: never empty, truncated or
\* mixed.
C18_CanonNeverTorn ==
  dir["canon"] # 0 =>
    /\ Complete(CanonContent(World))
    /\ lastRep.proc # 0 => CanonContent(World) = lastRep.content

\* the notes of the canonical file when the call of process 1 started
PreNotes == IF pre[1].exists THEN ParseContent(pre[1].content).notes ELSE <<>>

\* notes is before with the one change the last call of process 1 asked for
OneMutation(before, notes) ==
  IF ret[1].op = "add" THEN notes = Append(before, ret[1].note)
  ELSE \E i \in 1..Len(before) :
         /\ before[i].id = ret[1].arg.id
         /\ IF ret[1].op = "remove"
              THEN notes = [j \in 1..(Len(before) - 1) |-> before[IF j < i THEN j ELSE j + 1]]
              ELSE notes = [before EXCEPT ![i] = ret[1].note]

\* C19: when a call started with a temporary file left behind by a failed or
\* crashed write and changed the collection successfully, the canonical file is
\* exactly the call's own complete snapshot (the collection as it was, with the
\* call's one change), nothing of the stale temporary file is in it, and no
\* temporary file is left.
C19_StaleTempOverwritten ==
  (/\ pc[1] = "idle"
   /\ ret[1].kind \in {"note", "ok"}
   /\ stale[1].exists)
    => /\ CanonNow = [exists |-> TRUE, content |-> Dump(mem[1])]
       /\ Persisted = mem[1]
       /\ OneMutation(PreNotes, Persisted)
       /\ dir[TempPath] = 0

\* the call before failed after writing part of the temporary file, and this
\* one succeeded, writing a file that is not a continuation of that part
C19_Witness ==
  /\ pc[1] = "idle"
  /\ ret[1].kind \in {"note", "ok"}
  /\ faults = 1
  /\ stale[1].exists
  /\ Len(stale[1].content) >= 2
  /\ ~Complete(stale[1].content)
  /\ stale[1].content # SubSeq(CanonNow.content, 1, Len(stale[1].content))

====
